---- MODULE Spec2Model ----
(***************************************************************************)
(* Contract Simplifier (Practice/contract_simplifier).                     *)
(*                                                                         *)
(*   utils/auth.py    in-memory user store and usage counters              *)
(*   utils/parser.py  text extractors (pdfplumber, python-docx, OCR.Space) *)
(*   app.py           the Streamlit script: one script run per interaction *)
(*                                                                         *)
(* Python values: a str is a TLA+ string, None is the sentinel None (no    *)
(* input string equals it), a dict is a function whose DOMAIN is its keys. *)
(* A document text is a sequence of one-character strings.                 *)
(***************************************************************************)
EXTENDS Integers, Sequences, FiniteSets, TLC

VARIABLES
    users,       \* auth._get_user_store():  username -> [pw_hash, plan]
    usage,       \* auth._get_usage_store(): username -> [uploads, summaries]
    ret,         \* the last auth API call: its arguments and its outcome
    registered,  \* history: username -> [password, plan] of its first successful register_user
    procs,       \* concurrent register_user calls: position and locals of each
    call,        \* the last call of utils/parser.py or utils/ai_processor.py: input, environment, outcome
    ss,          \* app.py: st.session_state and the widgets of one browser session
    cache,       \* app.py: the st.cache_data store of cached_summarize
    run,         \* app.py: what the last script run did
    sessions,    \* test_ai.py: st.session_state of each browser session
    session_file \* test_ai.py: the user stored in session.json, None when the file is absent

vars == <<users, usage, ret, registered, procs, call, ss, cache, run, sessions, session_file>>

-----------------------------------------------------------------------------
(* Bounds *)

MaxCount == 1          \* the sequential auth API explores usage counters up to this value
MaxUsage == 2          \* the app explores each usage counter up to this value
MaxPages == 2          \* pages of a PDF, and ParsedResults entries of an OCR response
RecursionLimit == 3    \* depth at which the interpreter raises RecursionError

-----------------------------------------------------------------------------
(* Python values *)

None == "<None>"

FalsyNoneOnly(x) == x = None

\* `not x` for x a str or None
Falsy(x) == x = None \/ x = ""

EmptyDict == [k \in {} |-> 0]

\* d[k] = v on a dict
DictSet(d, k, v) == [x \in DOMAIN d \cup {k} |-> IF x = k THEN v ELSE d[x]]

Usernames == {"a", "test"}
Passwords == {"p", "test"}
UsernameInputs == Usernames \cup {"", None}
PasswordInputs == Passwords \cup {"", None}
PlanInputs == {"free", "paid", "gold"}

-----------------------------------------------------------------------------
(* utils/auth.py *)

\* hashlib.sha256(s).hexdigest(): an injective stand-in for the digest
sha256(s) == "sha256:" \o s

_hash_password_unsalted(username, password) ==
    IF username = None \/ password = None THEN "" ELSE sha256(username)

_hash_password(username, password) ==
    IF username = None \/ password = None THEN ""
    ELSE sha256(username \o password)

NormalizePlanKeep(plan) == plan

\* `plan if plan in ("free", "paid") else "free"`
NormalizePlan(plan) == IF plan \in {"free", "paid"} THEN plan ELSE "free"

UserRecord(username, password, plan) ==
    [pw_hash |-> _hash_password(username, password), plan |-> NormalizePlan(plan)]

AlreadyExistsNever(store, username) == FALSE

\* the `username in users` check of register_user
AlreadyExists(store, username) == username \in DOMAIN store

\* register_user: [raised, users] -- the exception (or "") and the store after
register_user(store, username, password, plan) ==
    IF Falsy(username) \/ Falsy(password)
    THEN [raised |-> "ValueError: username and password are required", users |-> store]
    ELSE IF AlreadyExists(store, username)
    THEN [raised |-> "ValueError: username already exists", users |-> store]
    ELSE [raised |-> "", users |-> DictSet(store, username, UserRecord(username, password, plan))]

validate_user(store, username, password) ==
    IF Falsy(username) \/ Falsy(password) THEN FALSE
    ELSE IF username \notin DOMAIN store THEN FALSE
    ELSE store[username].pw_hash = _hash_password(username, password)

get_user_plan(store, username) ==
    IF username \notin DOMAIN store THEN "free" ELSE store[username].plan

ensure_default_user_overwrite(store) ==
    DictSet(store, "test", [pw_hash |-> _hash_password("test", "test"), plan |-> "free"])

ensure_default_user(store) ==
    IF "test" \notin DOMAIN store
    THEN DictSet(store, "test", [pw_hash |-> _hash_password("test", "test"), plan |-> "free"])
    ELSE store

ZeroUsage == [uploads |-> 0, summaries |-> 0]

increment_usage_fresh_entry(store, username, uploads, summaries) ==
    IF Falsy(username) THEN store
    ELSE [u \in {username} |-> [uploads |-> uploads, summaries |-> summaries]]

increment_usage_replace(store, username, uploads, summaries) ==
    IF Falsy(username) THEN store
    ELSE DictSet(store, username, [uploads |-> uploads, summaries |-> summaries])

increment_usage(store, username, uploads, summaries) ==
    IF Falsy(username) THEN store
    ELSE LET entry == IF username \in DOMAIN store THEN store[username] ELSE ZeroUsage
         IN DictSet(store, username,
                    [uploads |-> entry.uploads + uploads,
                     summaries |-> entry.summaries + summaries])

get_usage(store, username) ==
    IF Falsy(username) THEN ZeroUsage
    ELSE IF username \in DOMAIN store THEN store[username] ELSE ZeroUsage

list_users(store) == [k \in DOMAIN store |-> store[k]]

\* what the caller of the last API call observes: the exception raised ("" for
\* none) or the value returned; username is kept for the two calls whose claims
\* read it
NoCall == [op |-> "none", username |-> "", out |-> ""]

Call(op, username, out) == [op |-> op, username |-> username, out |-> out]

-----------------------------------------------------------------------------
(* app.py: session state.  A session is st.session_state (the keys the     *)
(* script initialises) together with what Streamlit keeps for the session  *)
(* between two script runs: the view the last run rendered (the login page *)
(* or the app), the file in the uploader, the button the last run          *)
(* rendered, and a rerun requested by st.rerun().                          *)

\* the session state initialisation of a new session; summary_of is history:
\* the contract text the stored summary was generated from
FreshSession ==
    [logged_in |-> FALSE, user |-> None, page |-> "Upload",
     last_file_hash |-> None, last_text |-> <<>>, last_summary |-> <<>>,
     last_style |-> None, last_length |-> "medium",
     orig_word_count |-> 0, summary_word_count |-> 0,
     view |-> "login", uploader |-> "", button |-> "none", pending |-> FALSE,
     summary_of |-> <<>>]

NoSession == FreshSession

\* what a script run did: the event that started it, the credentials check of
\* a submitted login form, the extractor called, the OCR requests sent, the
\* outcome of cached_summarize ("none" when not called), the LLM calls made,
\* and the arguments cached_summarize was called with (<<>> when not called)
RunRecord(kind, validated, extractor, ocr, cached, llm) ==
    [kind |-> kind, validated |-> validated, extractor |-> extractor, ocr |-> ocr,
     cached |-> cached, llm |-> llm, args |-> <<>>]

NoRun == RunRecord("load", FALSE, "", 0, "none", 0)

-----------------------------------------------------------------------------
(* Text: str values that are stripped, joined and split.                    *)

Whitespace == {" ", "\n"}

RECURSIVE LStrip(_)
LStrip(t) == IF t # <<>> /\ Head(t) \in Whitespace THEN LStrip(Tail(t)) ELSE t

RECURSIVE RStrip(_)
RStrip(t) ==
    IF t # <<>> /\ t[Len(t)] \in Whitespace THEN RStrip(SubSeq(t, 1, Len(t) - 1)) ELSE t

\* str.strip()
Strip(t) == RStrip(LStrip(t))

\* sep.join(parts)
RECURSIVE Join(_, _)
Join(sep, parts) ==
    IF parts = <<>> THEN <<>>
    ELSE IF Len(parts) = 1 THEN parts[1]
    ELSE parts[1] \o sep \o Join(sep, Tail(parts))

\* None where a text is expected
NoText == <<None>>

\* `not text or not text.strip()`
Blank(t) == t = <<>> \/ Strip(t) = <<>>

\* sequences over S of length at most n
SeqUpTo(S, n) == UNION {[1..k -> S] : k \in 0..n}

\* str.lower() on the strings that occur in upper or mixed case
Lower(x) ==
    CASE x = "DOCX" -> "docx"
      [] x = "PDF" -> "pdf"
      [] x = "PNG" -> "png"
      [] x = "SHORT" -> "short"
      [] x = "Detailed" -> "detailed"
      [] x = "Rate" -> "rate"
      [] x = "Invalid" -> "invalid"
      [] x = "KEY" -> "key"
      [] OTHER -> x

\* A message is a str cut into pieces (a sequence of strings): lower() works
\* piece by piece and `sub in msg` looks for the pieces of sub in a row.
LowerMsg(msg) == [i \in 1..Len(msg) |-> Lower(msg[i])]

Contains(msg, sub) ==
    \E i \in 1..(Len(msg) - Len(sub) + 1) : SubSeq(msg, i, i + Len(sub) - 1) = sub

-----------------------------------------------------------------------------
(* utils/parser.py.  An extractor call is determined by the kind of its    *)
(* argument and by what the libraries and the OCR service do (env):        *)
(*   file  "filelike" (has getvalue), "bytes", or "path"                   *)
(*   key   OCR_SPACE_API_KEY is configured                                 *)
(*   http  the OCR.Space exchange                                          *)
(*   pdf   pdfplumber.open and each page's extract_text                    *)
(*   docx  Document(...) and its paragraphs                                *)
(*   open  open(path, "rb") succeeds                                       *)
(* Its outcome: the exception that leaves it ("" for a normal return), the *)
(* value returned, and the OCR requests and pdfplumber.open calls it made. *)

Outcome(raised, value, ocr, plumber) ==
    [raised |-> raised, value |-> value, ocr |-> ocr, plumber |-> plumber]

Return(value, ocr, plumber) == Outcome("", value, ocr, plumber)

Raise(exc, ocr, plumber) == Outcome(exc, <<>>, ocr, plumber)

FileKinds == {"filelike", "bytes", "path"}

PageTexts == {<<>>, <<" ">>, <<"a">>}

\* page.extract_text(): a text, None (text <<>>), or an exception
PageOutcomes == [raises : BOOLEAN, text : PageTexts]

PdfOutcomes ==
    {[opened |-> FALSE, pages |-> <<>>]}
        \cup {[opened |-> TRUE, pages |-> ps] : ps \in SeqUpTo(PageOutcomes, MaxPages)}

DocxOutcomes ==
    {[opened |-> FALSE, paragraphs |-> <<>>]}
        \cup {[opened |-> TRUE, paragraphs |-> ps] : ps \in SeqUpTo({<<>>, <<"a">>}, MaxPages)}

\* request_failed: requests.RequestException (also from raise_for_status);
\* not_json: resp.json() raises; errored: IsErroredOnProcessing is true;
\* malformed: JSON of another shape (result.get or str.join raises);
\* ok: ParsedResults with these ParsedText values
HttpOutcomes ==
    {[kind |-> k, parsed |-> <<>>] : k \in {"request_failed", "not_json", "errored", "malformed"}}
        \cup {[kind |-> "ok", parsed |-> ps] : ps \in SeqUpTo({<<" ">>, <<"a">>}, MaxPages)}

\* ocr_space_request(file_bytes, filename)
ocr_space_request(env) ==
    IF ~env.key THEN Raise("RuntimeError", 0, 0)
    ELSE IF env.http.kind = "request_failed" THEN Raise("RuntimeError", 1, 0)
    ELSE IF env.http.kind = "not_json" THEN Raise("RuntimeError", 1, 0)
    ELSE IF env.http.kind = "malformed" THEN Raise("AttributeError", 1, 0)
    ELSE IF env.http.kind = "errored" THEN Raise("RuntimeError", 1, 0)
    ELSE Return(Strip(Join(<<"\n">>, env.http.parsed)), 1, 0)

\* `try: ... except Exception: return ""` around a call
ExceptReturnsEmpty(r) == IF r.raised # "" THEN Return(<<>>, r.ocr, r.plumber) ELSE r

\* the first `def extract_text_from_pdf` (pdfplumber only)
extract_text_from_pdf_plumber(file, env) ==
    IF ~env.pdf.opened THEN Return(<<>>, 0, 1)
    ELSE LET pages == [i \in 1..Len(env.pdf.pages) |->
                         IF env.pdf.pages[i].raises THEN <<>> ELSE env.pdf.pages[i].text]
         IN Return(Strip(Join(<<"\n">>, pages)), 0, 1)

extract_text_from_docx(file, env) ==
    IF ~env.docx.opened THEN Return(<<>>, 0, 0)
    ELSE Return(Strip(Join(<<"\n">>, env.docx.paragraphs)), 0, 0)

extract_text_from_image(file, env) ==
    IF file \in {"filelike", "bytes"}
    THEN ExceptReturnsEmpty(ocr_space_request(env))
    ELSE ExceptReturnsEmpty(Raise("ValueError", 0, 0))

\* for a path: open() raises OSError, or os.path.basename raises NameError
\* (the module never imports os); both end in the except clause
extract_text_from_scanned_pdf(file, env) ==
    IF file \in {"filelike", "bytes"}
    THEN ExceptReturnsEmpty(ocr_space_request(env))
    ELSE IF ~env.open THEN ExceptReturnsEmpty(Raise("OSError", 0, 0))
    ELSE ExceptReturnsEmpty(Raise("NameError", 0, 0))

\* The module defines extract_text_from_pdf twice; the second `def` rebinds the
\* module-level name, and extract_text_from_pdf_auto looks the name up when it
\* is called, so its "pdfplumber first" call reaches the second definition.
\* depth counts the frames on the interpreter's stack.
RECURSIVE extract_text_from_pdf_at(_, _, _)
RECURSIVE extract_text_from_pdf_auto_at(_, _, _)

extract_text_from_pdf_auto_at(file, env, depth) ==
    IF depth >= RecursionLimit THEN Raise("RecursionError", 0, 0)
    ELSE LET first == extract_text_from_pdf_at(file, env, depth + 1) IN
         IF first.raised # "" THEN first
         ELSE IF ~Blank(first.value) THEN first
         ELSE LET second == ExceptReturnsEmpty(extract_text_from_scanned_pdf(file, env))
              IN Outcome(second.raised, second.value,
                         first.ocr + second.ocr, first.plumber + second.plumber)

\* the second `def extract_text_from_pdf`
extract_text_from_pdf_at(file, env, depth) ==
    IF depth >= RecursionLimit THEN Raise("RecursionError", 0, 0)
    ELSE extract_text_from_pdf_auto_at(file, env, depth + 1)

\* what the names are bound to once the module is imported
extract_text_from_pdf(file, env) == extract_text_from_pdf_at(file, env, 0)

extract_text_from_pdf_auto(file, env) == extract_text_from_pdf_auto_at(file, env, 0)

Envs ==
    [key : BOOLEAN, http : HttpOutcomes, pdf : PdfOutcomes, docx : DocxOutcomes, open : BOOLEAN]

\* the parts of env an extractor does not read are left at these values
NoPdf == [opened |-> FALSE, pages |-> <<>>]
NoDocx == [opened |-> FALSE, paragraphs |-> <<>>]
NoHttp == [kind |-> "request_failed", parsed |-> <<>>]

PdfEnvs == {e \in Envs : e.docx = NoDocx}
DocxEnvs == {e \in Envs : e.pdf = NoPdf /\ e.http = NoHttp /\ ~e.key /\ ~e.open}
OcrEnvs == {e \in Envs : e.pdf = NoPdf /\ e.docx = NoDocx}

NoExtract ==
    [fn |-> "none", file |-> "bytes",
     env |-> [key |-> FALSE, http |-> NoHttp, pdf |-> NoPdf, docx |-> NoDocx, open |-> FALSE],
     result |-> Return(<<>>, 0, 0)]

Extraction(fn, file, env, result) == [fn |-> fn, file |-> file, env |-> env, result |-> result]

\* one extractor call per behaviour: the argument and the environment are
\* drawn first, then one extractor is applied to them
InitParser ==
    /\ users = EmptyDict
    /\ usage = EmptyDict
    /\ ret = NoCall
    /\ registered = EmptyDict
    /\ procs = EmptyDict
    /\ ss = NoSession
    /\ cache = EmptyDict
    /\ run = NoRun
    /\ sessions = EmptyDict
    /\ session_file = None
    /\ \E file \in FileKinds, env \in PdfEnvs \cup DocxEnvs :
         call = Extraction("none", file, env, Return(<<>>, 0, 0))

Apply(fn, envs, result) ==
    /\ call.fn = "none"
    /\ call.env \in envs
    /\ call' = Extraction(fn, call.file, call.env, result)
    /\ UNCHANGED <<users, usage, ret, registered, procs, ss, cache, run, sessions, session_file>>

ExtractPdf ==
    Apply("extract_text_from_pdf", PdfEnvs, extract_text_from_pdf(call.file, call.env))

ExtractPdfAuto ==
    Apply("extract_text_from_pdf_auto", PdfEnvs, extract_text_from_pdf_auto(call.file, call.env))

ExtractDocx ==
    Apply("extract_text_from_docx", DocxEnvs, extract_text_from_docx(call.file, call.env))

ExtractImage ==
    Apply("extract_text_from_image", OcrEnvs, extract_text_from_image(call.file, call.env))

ExtractScannedPdf ==
    Apply("extract_text_from_scanned_pdf", OcrEnvs,
          extract_text_from_scanned_pdf(call.file, call.env))

NextParser ==
    \/ ExtractPdf
    \/ ExtractPdfAuto
    \/ ExtractDocx
    \/ ExtractImage
    \/ ExtractScannedPdf

SpecParser == InitParser /\ [][NextParser]_vars

\* the four public extractors of the module's docstring
PublicExtractors ==
    {"extract_text_from_pdf", "extract_text_from_docx", "extract_text_from_image",
     "extract_text_from_scanned_pdf"}

\* the selectable text pdfplumber yields in env
PlumberText(env) == extract_text_from_pdf_plumber("filelike", env).value

\* C9: every public extractor returns a string and never raises, for every
\* input kind and every outcome of the underlying calls.
C9_NeverRaises ==
    call.fn \in PublicExtractors => call.result.raised = ""

\* docx, image and scanned-PDF extraction do return "" in each failure case and
\* never raise; extract_text_from_pdf alone breaks C9
C9_OthersNeverRaise ==
    call.fn \in PublicExtractors \ {"extract_text_from_pdf"} => call.result.raised = ""

\* C10: extract_text_from_pdf returns the pdfplumber text whenever it is
\* non-blank and then sends no OCR request; otherwise it sends at most one OCR
\* request, after pdfplumber was tried, and returns that result or "".
C10_TextFirst ==
    call.fn = "extract_text_from_pdf" =>
        /\ call.result.raised = ""
        /\ call.result.plumber = 1
        /\ IF ~Blank(PlumberText(call.env))
           THEN call.result.value = PlumberText(call.env) /\ call.result.ocr = 0
           ELSE call.result.ocr <= 1

-----------------------------------------------------------------------------
(* The auth API called sequentially *)

InitAuth ==
    /\ users = EmptyDict
    /\ usage = EmptyDict
    /\ ret = NoCall
    /\ registered = EmptyDict
    /\ procs = EmptyDict
    /\ call = NoExtract
    /\ ss = NoSession
    /\ cache = EmptyDict
    /\ run = NoRun
    /\ sessions = EmptyDict
    /\ session_file = None

RegisterUser ==
    \E username \in UsernameInputs, password \in PasswordInputs, plan \in PlanInputs :
        LET r == register_user(users, username, password, plan) IN
        /\ users' = r.users
        /\ ret' = Call("register_user", username, r.raised)
        /\ registered' = IF r.raised = "" /\ username \notin DOMAIN registered
                         THEN DictSet(registered, username, [password |-> password, plan |-> plan])
                         ELSE registered
        /\ UNCHANGED <<usage, procs, call, ss, cache, run, sessions, session_file>>

ValidateUser ==
    \E username \in UsernameInputs, password \in PasswordInputs :
        /\ ret' = Call("validate_user", username, validate_user(users, username, password))
        /\ UNCHANGED <<users, usage, registered, procs, call, ss, cache, run, sessions, session_file>>

GetUserPlan ==
    \E username \in UsernameInputs :
        /\ ret' = Call("get_user_plan", "", get_user_plan(users, username))
        /\ UNCHANGED <<users, usage, registered, procs, call, ss, cache, run, sessions, session_file>>

EnsureDefaultUser ==
    /\ users' = ensure_default_user(users)
    /\ ret' = Call("ensure_default_user", "", "")
    /\ UNCHANGED <<usage, registered, procs, call, ss, cache, run, sessions, session_file>>

IncrementUsage ==
    \E username \in UsernameInputs, uploads \in {0, 1}, summaries \in {0, 1} :
        /\ get_usage(usage, username).uploads + uploads <= MaxCount
        /\ get_usage(usage, username).summaries + summaries <= MaxCount
        /\ usage' = increment_usage(usage, username, uploads, summaries)
        /\ ret' = Call("increment_usage", "", "")
        /\ UNCHANGED <<users, registered, procs, call, ss, cache, run, sessions, session_file>>

GetUsage ==
    \E username \in UsernameInputs :
        /\ ret' = Call("get_usage", "", get_usage(usage, username))
        /\ UNCHANGED <<users, usage, registered, procs, call, ss, cache, run, sessions, session_file>>

ListUsers ==
    /\ ret' = Call("list_users", "", list_users(users))
    /\ UNCHANGED <<users, usage, registered, procs, call, ss, cache, run, sessions, session_file>>

NextAuth ==
    \/ RegisterUser
    \/ ValidateUser
    \/ GetUserPlan
    \/ EnsureDefaultUser
    \/ IncrementUsage
    \/ GetUsage
    \/ ListUsers

SpecAuth == InitAuth /\ [][NextAuth]_vars

-----------------------------------------------------------------------------
(* Claims about the sequential auth API *)

ValueErrors ==
    {"ValueError: username and password are required", "ValueError: username already exists"}

\* C1: usernames are a unique key. A register_user call for a username already
\* in the store raises ValueError and leaves the store unchanged, and every
\* username that register_user ever accepted maps to the record of its first
\* successful registration (the hash of that password, that plan).
C1_UniqueKey ==
    [][ /\ (ret'.op = "register_user" /\ ret'.username \in DOMAIN users)
            => (ret'.out \in ValueErrors /\ users' = users)
        /\ \A u \in DOMAIN registered' :
              /\ u \in DOMAIN users'
              /\ users'[u] = UserRecord(u, registered'[u].password, registered'[u].plan)
      ]_vars

\* a second registration of a registered username was refused and the first
\* record is still the stored one
C1_Witness ==
    /\ ret.op = "register_user"
    /\ ret.out = "ValueError: username already exists"
    /\ ret.username \in DOMAIN registered
    /\ users[ret.username] =
         UserRecord(ret.username, registered[ret.username].password,
                    registered[ret.username].plan)

\* C2 as stated: validate_user(u, q) is True exactly when u was registered by
\* register_user and q is the password of that registration; in particular it
\* is False for every username register_user never accepted.
C2_Original ==
    \A u \in UsernameInputs, q \in PasswordInputs :
        validate_user(users, u, q) = (u \in DOMAIN registered /\ q = registered[u].password)

\* C2 amended: as C2_Original, except that the default user "test", once
\* ensure_default_user has created it, validates with exactly the password
\* "test" although register_user never accepted it.
C2_RoundTrip ==
    \A u \in UsernameInputs, q \in PasswordInputs :
        validate_user(users, u, q) =
            IF u \in DOMAIN registered THEN q = registered[u].password
            ELSE u = "test" /\ "test" \in DOMAIN users /\ q = "test"

\* a registered user, and validate_user was called for it
C2_Witness ==
    /\ ret.op = "validate_user"
    /\ ret.username \in DOMAIN registered
    /\ ret.out = TRUE
    /\ \E q \in Passwords : ~validate_user(users, ret.username, q)

\* C4: a user record is never updated or deleted: every username in the store
\* is still there with the same hash and plan after any one auth API call.
C4_NeverUpdated ==
    [][\A u \in DOMAIN users : u \in DOMAIN users' /\ users'[u] = users[u]]_vars

\* "test" was registered with another password and plan, ensure_default_user
\* ran afterwards, and the registered record is still the stored one
C4_Witness ==
    /\ ret.op = "ensure_default_user"
    /\ "test" \in DOMAIN registered
    /\ registered["test"] = [password |-> "p", plan |-> "paid"]
    /\ users["test"] = UserRecord("test", "p", "paid")

\* C15: every record in the user store has plan "free" or "paid" (a
\* registration with any other plan value stores "free"), and get_user_plan
\* returns "free" or "paid" for every username, "free" for one not registered.
C15_PlanTag ==
    /\ \A u \in DOMAIN users : users[u].plan \in {"free", "paid"}
    /\ \A u \in DOMAIN registered :
          registered[u].plan \notin {"free", "paid"} => users[u].plan = "free"
    /\ \A u \in UsernameInputs :
          /\ get_user_plan(users, u) \in {"free", "paid"}
          /\ u \notin DOMAIN users => get_user_plan(users, u) = "free"

\* a user registered with plan "gold" is stored with plan "free", another
\* one is stored as "paid", and get_user_plan was called
C15_Witness ==
    /\ ret.op = "get_user_plan"
    /\ \E u \in DOMAIN registered : registered[u].plan = "gold" /\ users[u].plan = "free"
    /\ \E u \in DOMAIN users : get_user_plan(users, u) = "paid"

\* C18: register_user with an empty or None username or password raises
\* ValueError and leaves the store unchanged; the store never holds a record
\* with an empty (or None) username; validate_user is never True for an empty
\* username or password.
C18_RejectsEmpty ==
    /\ \A u \in UsernameInputs, p \in PasswordInputs, plan \in PlanInputs :
          (u \in {"", None} \/ p \in {"", None}) =>
              /\ register_user(users, u, p, plan).raised
                    = "ValueError: username and password are required"
              /\ register_user(users, u, p, plan).users = users
              /\ ~validate_user(users, u, p)
    /\ "" \notin DOMAIN users /\ None \notin DOMAIN users

\* register_user was called with an empty username on a store that has
\* users, and raised
C18_Witness ==
    /\ ret.op = "register_user" /\ ret.username = ""
    /\ ret.out = "ValueError: username and password are required"
    /\ users # EmptyDict

-----------------------------------------------------------------------------
(* register_user called concurrently.  Streamlit runs each session's script *)
(* in a thread of its own and both threads share the user store; a thread  *)
(* switch can fall between the `username in users` check and the store     *)
(* write, which are separate statements with no lock around them.          *)

Procs == {1, 2}

Idle == [pc |-> "idle", username |-> "", password |-> "", plan |-> "", raised |-> ""]

InitRace ==
    /\ users = EmptyDict
    /\ usage = EmptyDict
    /\ ret = NoCall
    /\ registered = EmptyDict
    /\ procs = [p \in Procs |-> Idle]
    /\ call = NoExtract
    /\ ss = NoSession
    /\ cache = EmptyDict
    /\ run = NoRun
    /\ sessions = EmptyDict
    /\ session_file = None

\* a caller enters register_user(username, password, plan)
RaceCall(p) ==
    /\ procs[p].pc = "idle"
    /\ \E username \in UsernameInputs, password \in PasswordInputs, plan \in {"free", "paid"} :
         procs' = [procs EXCEPT ![p] = [pc |-> "check", username |-> username,
                                        password |-> password, plan |-> plan, raised |-> ""]]
    /\ UNCHANGED <<users, usage, ret, registered, call, ss, cache, run, sessions, session_file>>

\* the argument check and the `username in users` check
RaceCheck(p) ==
    /\ procs[p].pc = "check"
    /\ procs' = [procs EXCEPT ![p] =
         IF Falsy(@.username) \/ Falsy(@.password)
         THEN [@ EXCEPT !.pc = "done", !.raised = "ValueError: username and password are required"]
         ELSE IF AlreadyExists(users, @.username)
         THEN [@ EXCEPT !.pc = "done", !.raised = "ValueError: username already exists"]
         ELSE [@ EXCEPT !.pc = "write"]]
    /\ UNCHANGED <<users, usage, ret, registered, call, ss, cache, run, sessions, session_file>>

StoreWriteIfAbsent(store, username, record) ==
    IF username \in DOMAIN store THEN store ELSE DictSet(store, username, record)

\* the store after `users[username] = {...}`
StoreWrite(store, username, record) == DictSet(store, username, record)

\* plan normalisation and the store write; ret remembers the record written last
RaceWrite(p) ==
    /\ procs[p].pc = "write"
    /\ LET c == procs[p]
           rec == UserRecord(c.username, c.password, c.plan)
       IN /\ users' = StoreWrite(users, c.username, rec)
          /\ ret' = Call("register_user", c.username, rec)
    /\ procs' = [procs EXCEPT ![p].pc = "done"]
    /\ UNCHANGED <<usage, registered, call, ss, cache, run, sessions, session_file>>

NextRace ==
    \/ \E p \in Procs : RaceCall(p)
    \/ \E p \in Procs : RaceCheck(p)
    \/ \E p \in Procs : RaceWrite(p)

SpecRace == InitRace /\ [][NextRace]_vars

\* both calls returned without raising, for the same username
BothRegistered ==
    /\ \A p \in Procs : procs[p].pc = "done" /\ procs[p].raised = ""
    /\ procs[1].username = procs[2].username

\* C5: when two concurrent register_user calls for the same new username both
\* return without raising (C5_Witness: they can), the record left in the store
\* is the one written last, whichever caller wrote it.
C5_LastWriteWins ==
    BothRegistered => users[procs[1].username] = ret.out

\* both calls returned normally for one username with different passwords and
\* plans, and the record of one caller is not in the store
C5_Witness ==
    /\ BothRegistered
    /\ procs[1].password # procs[2].password
    /\ procs[1].plan # procs[2].plan
    /\ users[procs[1].username] =
         UserRecord(procs[2].username, procs[2].password, procs[2].plan)
    /\ users[procs[1].username] #
         UserRecord(procs[1].username, procs[1].password, procs[1].plan)

-----------------------------------------------------------------------------
(* increment_usage called concurrently.  The statements of lines 120-125    *)
(* are separate steps with no lock around them.  An entry found in the      *)
(* store is the store's own dict (every write to it is a write to the      *)
(* store); an entry created by line 122 is private to the call until line  *)
(* 125 stores it.  before and overlapped are history: the uploads count    *)
(* when the call began, and whether the other call was running at any time *)
(* during this one.                                                         *)

UsageIdle ==
    [pc |-> "idle", username |-> "", fresh |-> FALSE, entry |-> ZeroUsage, tmp |-> 0,
     before |-> 0, overlapped |-> FALSE]

Running(c) == c.pc \notin {"idle", "done"}

InitUsageRace ==
    /\ users = EmptyDict
    /\ \E G \in {EmptyDict, DictSet(EmptyDict, "a", ZeroUsage),
                  DictSet(EmptyDict, "a", [uploads |-> 1, summaries |-> 1])} : usage = G
    /\ ret = NoCall
    /\ registered = EmptyDict
    /\ procs = [p \in Procs |-> UsageIdle]
    /\ call = NoExtract
    /\ ss = NoSession
    /\ cache = EmptyDict
    /\ run = NoRun
    /\ sessions = EmptyDict
    /\ session_file = None

\* a caller enters increment_usage(username, uploads=1); `if not username: return`
UsageCall(p) ==
    /\ procs[p].pc = "idle"
    /\ \E username \in UsernameInputs :
         LET other == \E q \in Procs \ {p} : Running(procs[q]) IN
         procs' = [q \in Procs |->
                     IF q = p
                     THEN [UsageIdle EXCEPT !.pc = IF Falsy(username) THEN "done" ELSE "get",
                                            !.username = username,
                                            !.before = get_usage(usage, username).uploads,
                                            !.overlapped = other]
                     ELSE IF Running(procs[q]) THEN [procs[q] EXCEPT !.overlapped = TRUE]
                     ELSE procs[q]]
    /\ UNCHANGED <<users, usage, ret, registered, call, ss, cache, run, sessions, session_file>>

\* `entry = store.get(username); if not entry: entry = {"uploads": 0, "summaries": 0}`
UsageGet(p) ==
    /\ procs[p].pc = "get"
    /\ procs' = [procs EXCEPT ![p].pc = "read",
                               ![p].fresh = procs[p].username \notin DOMAIN usage,
                               ![p].entry = ZeroUsage]
    /\ UNCHANGED <<users, usage, ret, registered, call, ss, cache, run, sessions, session_file>>

\* the dict the local name entry refers to
EntryOf(c, store) == IF c.fresh THEN c.entry ELSE store[c.username]

\* the right-hand side of line 123: `entry.get("uploads", 0)`
UsageRead(p) ==
    /\ procs[p].pc = "read"
    /\ procs' = [procs EXCEPT ![p].pc = "add", ![p].tmp = EntryOf(procs[p], usage).uploads]
    /\ UNCHANGED <<users, usage, ret, registered, call, ss, cache, run, sessions, session_file>>

NotIncremented(count, n) == count

\* `... + int(uploads)`
Incremented(count, n) == count + n

\* the assignment of line 123, and line 124 (which adds int(0))
UsageAdd(p) ==
    /\ procs[p].pc = "add"
    /\ LET c == procs[p]
           entry == [EntryOf(c, usage) EXCEPT !.uploads = Incremented(c.tmp, 1)]
       IN IF c.fresh
          THEN /\ procs' = [procs EXCEPT ![p].pc = "store", ![p].entry = entry]
               /\ usage' = usage
          ELSE /\ procs' = [procs EXCEPT ![p].pc = "store"]
               /\ usage' = DictSet(usage, c.username, entry)
    /\ UNCHANGED <<users, ret, registered, call, ss, cache, run, sessions, session_file>>

\* `store[username] = entry`
UsageStore(p) ==
    /\ procs[p].pc = "store"
    /\ usage' = DictSet(usage, procs[p].username, EntryOf(procs[p], usage))
    /\ procs' = [procs EXCEPT ![p].pc = "done"]
    /\ UNCHANGED <<users, ret, registered, call, ss, cache, run, sessions, session_file>>

NextUsageRace ==
    \/ \E p \in Procs : UsageCall(p)
    \/ \E p \in Procs : UsageGet(p)
    \/ \E p \in Procs : UsageRead(p)
    \/ \E p \in Procs : UsageAdd(p)
    \/ \E p \in Procs : UsageStore(p)

SpecUsageRace == InitUsageRace /\ [][NextUsageRace]_vars

\* both calls have returned, for the same (non-empty) username
BothIncremented ==
    /\ \A p \in Procs : procs[p].pc = "done" /\ ~Falsy(procs[p].username)
    /\ procs[1].username = procs[2].username

\* the uploads count before the first of the two calls
UploadsBefore == IF procs[1].before <= procs[2].before THEN procs[1].before ELSE procs[2].before

\* C19: after two increment_usage(u, uploads=1) calls for the same username
\* the uploads counter is 1 or 2 higher than before (C19_Witness: 1 happens,
\* a lost update, when the calls interleave), and it is 2 higher whenever the
\* calls ran one after the other.
C19_LostUpdate ==
    BothIncremented =>
        LET now == get_usage(usage, procs[1].username).uploads IN
        /\ now \in {UploadsBefore + 1, UploadsBefore + 2}
        /\ (\A p \in Procs : ~procs[p].overlapped) => now = UploadsBefore + 2

\* two interleaved calls for a user whose count was 1 left it at 2
C19_Witness ==
    /\ BothIncremented
    /\ \A p \in Procs : procs[p].overlapped /\ procs[p].before = 1 /\ ~procs[p].fresh
    /\ get_usage(usage, procs[1].username).uploads = 2

\* two calls one after the other counted both
C19_Sequential ==
    /\ BothIncremented
    /\ \A p \in Procs : ~procs[p].overlapped
    /\ get_usage(usage, procs[1].username).uploads = UploadsBefore + 2

-----------------------------------------------------------------------------
(* utils/ai_processor.py *)

\* What one attempt to reach the API through one client of the installed
\* openai package does:
\*   absent   the client is not there (ImportError, or no such attribute)
\*   refused  the call raises before a request is sent (no API key, removed API)
\*   failed   the request is sent and the API answers with an error
\*   ok       the request is sent and answered; content is the assistant's
\*            message content, None (NoText) when the answer carries none
\* error is the message of the exception raised.
Absent == [kind |-> "absent", error |-> <<>>, content |-> NoText]
Refused(error) == [kind |-> "refused", error |-> error, content |-> NoText]
Failed(error) == [kind |-> "failed", error |-> error, content |-> NoText]
Ok(content) == [kind |-> "ok", error |-> <<>>, content |-> content]

ApiErrors ==
    {<<"Rate", " ", "limit", " ", "reached">>, <<"rate", "_", "limit", "_exceeded">>,
     <<"Incorrect API key provided: ", "invalid", "_api_", "key">>,
     <<"Invalid", " API ", "key">>, <<"timeout">>}

ClientOutcomes ==
    {Absent, Refused(<<"The api_key client option must be set">>)}
        \cup {Failed(e) : e \in ApiErrors}
        \cup {Ok(c) : c \in {NoText, <<"s", " ">>, <<>>}}

OpenAIEnvs == [modern : ClientOutcomes, legacy : ClientOutcomes]

\* the outcome of a block of code: the exception that leaves it ("" for none)
\* with its message, whether it returned and what, and the chat-completion
\* requests it sent, each [client, max_tokens]
Attempt(raised, message, returned, value, requests) ==
    [raised |-> raised, message |-> message, returned |-> returned, value |-> value,
     requests |-> requests]

\* client.chat.completions.create / openai.ChatCompletion.create followed by
\* `resp.choices[0].message.content.strip()`
ChatCompletion(client, outcome, messages, max_tokens) ==
    LET request == <<[client |-> client, max_tokens |-> max_tokens, messages |-> messages]>> IN
    CASE outcome.kind = "absent" -> Attempt("ImportError", <<"cannot import name">>, FALSE, NoText, <<>>)
      [] outcome.kind = "refused" -> Attempt("OpenAIError", outcome.error, FALSE, NoText, <<>>)
      [] outcome.kind = "failed" -> Attempt("APIError", outcome.error, FALSE, NoText, request)
      [] outcome.kind = "ok" ->
           IF outcome.content = NoText
           THEN Attempt("AttributeError", <<"'NoneType' object has no attribute 'strip'">>,
                        FALSE, NoText, request)
           ELSE Attempt("", <<>>, TRUE, Strip(outcome.content), request)

\* the legacy attempt: `if hasattr(openai, "ChatCompletion"):` guards the call
LegacyCompletion(outcome, messages, max_tokens) ==
    IF outcome.kind = "absent" THEN Attempt("", <<>>, FALSE, NoText, <<>>)
    ELSE ChatCompletion("legacy", outcome, messages, max_tokens)

ExceptNothing(a) == a

\* `except Exception as exc: logger.debug(...)`: the exception is logged and
\* execution goes on after the try statement
ExceptLogged(a) == IF a.raised # "" THEN [a EXCEPT !.raised = "", !.message = <<>>] ELSE a

\* _call_openai_chat; failure is the message of its final RuntimeError
CallChat(env, messages, max_tokens, failure) ==
    LET modern == ExceptLogged(ChatCompletion("modern", env.modern, messages, max_tokens)) IN
    IF modern.raised # "" \/ modern.returned THEN modern
    ELSE LET legacy == ExceptLogged(LegacyCompletion(env.legacy, messages, max_tokens))
             requests == modern.requests \o legacy.requests
         IN IF legacy.raised # "" \/ legacy.returned
            THEN [legacy EXCEPT !.requests = requests]
            ELSE Attempt("RuntimeError", failure, FALSE, NoText, requests)

\* utils/ai_processor.py
_call_openai_chat(env, messages, max_tokens) ==
    CallChat(env, messages, max_tokens,
             <<"No compatible OpenAI client available or API call failed. See logs for details.">>)

\* test_ai_pro1.py
_call_openai_chat_pro1(env, messages, max_tokens) ==
    CallChat(env, messages, max_tokens,
             <<"OpenAI client not available or the API call failed. Check logs and your OPENAI_API_",
               "KEY", ".">>)

LENGTH_TO_MAX_TOKENS ==
    [style \in {"short", "medium", "detailed"} |->
        CASE style = "short" -> 300 [] style = "medium" -> 800 [] style = "detailed" -> 1400]

NormalizeLengthCaseSensitive(style) ==
    IF style \in {"short", "medium", "detailed"} THEN style ELSE "medium"

\* `style = (style or "medium").lower()`, then "medium" for any other value
NormalizeLength(style) ==
    LET lowered == Lower(IF Falsy(style) THEN "medium" ELSE style) IN
    IF lowered \in {"short", "medium", "detailed"} THEN lowered ELSE "medium"

\* the length instruction of utils/ai_processor.py for a normalised style
LengthInstruction(style) ==
    CASE style = "short" ->
           <<"Please produce a very concise summary (about 1-2 short paragraphs).">>
      [] style = "detailed" ->
           <<"Please produce a comprehensive detailed summary covering parties, obligations, deadlines, penalties, payment terms, and any notable risks or unusual clauses.">>
      [] OTHER ->
           <<"Please produce a balanced summary (concise paragraphs highlighting key clauses, obligations and important risks).">>

\* the length instruction of test_ai_pro1.py
LengthInstructionPro1(style) ==
    CASE style = "short" ->
           <<"Please produce a very concise summary (about 1-2 short paragraphs).">>
      [] style = "detailed" ->
           <<"Please produce a comprehensive detailed summary covering parties, obligations, deadlines, penalties, payment terms, and any notable risks or unusual clauses.">>
      [] OTHER ->
           <<"Please produce a balanced summary highlighting key clauses, obligations, and important risks in a concise manner.">>

\* `messages = [system_msg, user_msg]`
Messages(user_content) ==
    <<[role |-> "system",
       content |-> <<"You are a helpful legal assistant that summarizes contracts into plain English.">>],
      [role |-> "user", content |-> user_content]>>

\* what summarize_contract hands to its caller: raised, message, value, the
\* requests sent and their number
Summarized(a) ==
    [raised |-> a.raised, message |-> a.message, value |-> a.value,
     requests |-> a.requests, llm |-> Len(a.requests)]

\* summarize_contract(text, style) of utils/ai_processor.py; llm is what the
\* openai clients do
summarize_contract(text, style, llm) ==
    LET normalized == NormalizeLength(style)
        messages == Messages(LengthInstruction(normalized)
                                 \o <<"\n", "\n", "Contract text:", "\n">> \o text)
        max_tokens == LENGTH_TO_MAX_TOKENS[normalized]
        a == _call_openai_chat(llm, messages, max_tokens)
    IN IF a.raised # ""
       THEN Summarized(Attempt("RuntimeError", <<"AI summarization error: ">> \o a.message,
                               FALSE, NoText, a.requests))
       ELSE Summarized(a)

AuthFailedMessage == <<"AI authentication failed: invalid OpenAI API key. ...">>
RateLimitMessage == <<"AI rate limit reached. Please try again shortly or upgrade your plan.">>

\* the except clause of summarize_contract in test_ai_pro1.py
MapError(message) ==
    LET msg == LowerMsg(message) IN
    IF Contains(msg, <<"invalid", "_api_", "key">>)
       \/ (Contains(msg, <<"invalid">>) /\ Contains(msg, <<"key">>))
    THEN AuthFailedMessage
    ELSE IF Contains(msg, <<"rate", " ", "limit">>) \/ Contains(msg, <<"rate", "_", "limit">>)
    THEN RateLimitMessage
    ELSE <<"AI summarization error: ">> \o message

\* summarize_contract(text, style) of test_ai_pro1.py
summarize_contract_pro1(text, style, llm) ==
    LET normalized == NormalizeLength(style)
        messages == Messages(LengthInstructionPro1(normalized) \o <<"\n", "\n">> \o text)
        max_tokens == LENGTH_TO_MAX_TOKENS[normalized]
        a == _call_openai_chat_pro1(llm, messages, max_tokens)
    IN IF a.raised # ""
       THEN Summarized(Attempt("RuntimeError", MapError(a.message), FALSE, NoText, a.requests))
       ELSE Summarized(a)

\* the openai package of the app's deployment: the modern client answers, or
\* its request fails and the legacy API is the stub that raises
LlmOutcomes ==
    {[modern |-> Ok(<<"s", " ">>), legacy |-> Refused(<<"no longer supported">>)],
     [modern |-> Failed(<<"Rate", " ", "limit", " ", "reached">>),
      legacy |-> Refused(<<"no longer supported">>)]}

\* the values passed as style: None, "", the three lengths in some case, and
\* a value that is none of them
LengthArgs == {None, "", "SHORT", "medium", "Detailed", "long"}

AiCall(fn, style, env, result) == [fn |-> fn, style |-> style, env |-> env, result |-> result]

\* one call per behaviour: the style argument and what the openai clients do
\* are drawn first, then one function is applied to them
InitAI ==
    /\ users = EmptyDict
    /\ usage = EmptyDict
    /\ ret = NoCall
    /\ registered = EmptyDict
    /\ procs = EmptyDict
    /\ ss = NoSession
    /\ cache = EmptyDict
    /\ run = NoRun
    /\ sessions = EmptyDict
    /\ session_file = None
    /\ \E style \in LengthArgs, env \in OpenAIEnvs :
         call = AiCall("none", style, env, Summarized(Attempt("", <<>>, FALSE, NoText, <<>>)))

ApplyAI(fn, result) ==
    /\ call.fn = "none"
    /\ call' = AiCall(fn, call.style, call.env, result)
    /\ UNCHANGED <<users, usage, ret, registered, procs, ss, cache, run, sessions, session_file>>

CallOpenAIChat ==
    ApplyAI("_call_openai_chat",
            Summarized(_call_openai_chat(call.env, Messages(<<"a">>),
                                         LENGTH_TO_MAX_TOKENS[NormalizeLength(call.style)])))

CallOpenAIChatPro1 ==
    ApplyAI("_call_openai_chat_pro1",
            Summarized(_call_openai_chat_pro1(call.env, Messages(<<"a">>),
                                              LENGTH_TO_MAX_TOKENS[NormalizeLength(call.style)])))

SummarizeContract ==
    ApplyAI("summarize_contract", summarize_contract(<<"a">>, call.style, call.env))

SummarizeContractPro1 ==
    ApplyAI("summarize_contract_pro1", summarize_contract_pro1(<<"a">>, call.style, call.env))

NextAI ==
    \/ CallOpenAIChat
    \/ CallOpenAIChatPro1
    \/ SummarizeContract
    \/ SummarizeContractPro1

SpecAI == InitAI /\ [][NextAI]_vars

AiFunctions ==
    {"_call_openai_chat", "_call_openai_chat_pro1", "summarize_contract", "summarize_contract_pro1"}

Errored(outcome) == outcome.kind \in {"refused", "failed"}

\* C13: in the error-mapping version, when the chat-completion call failed
\* (one client there, and its call raised) the RuntimeError raised is the
\* rate-limit message for an error containing 'rate limit' or 'rate_limit',
\* the authentication message for an invalid API key, and
\* 'AI summarization error: ...' for every other failure.
C13_ErrorMapping ==
    (call.fn = "summarize_contract_pro1" /\ call.result.raised # "") =>
        /\ call.result.raised = "RuntimeError"
        /\ (Errored(call.env.modern) /\ call.env.legacy.kind = "absent")
              => call.result.message = MapError(call.env.modern.error)
        /\ (call.env.modern.kind = "absent" /\ Errored(call.env.legacy))
              => call.result.message = MapError(call.env.legacy.error)

\* what the error mapping does deliver: every failure reaches the caller as
\* 'AI summarization error: ' followed by the fixed message of
\* _call_openai_chat
C13_AlwaysGeneric ==
    (call.fn = "summarize_contract_pro1" /\ call.result.raised # "") =>
        call.result.message =
            <<"AI summarization error: ">> \o _call_openai_chat_pro1(call.env, Messages(<<>>), 800).message

\* C20: _call_openai_chat returns the assistant's text (a str, never None) or
\* raises RuntimeError, for every combination of outcomes of the two clients;
\* when the modern attempt returns, its text is the result and no legacy
\* request was sent; summarize_contract returns a str or raises RuntimeError.
C20_TextOrRuntimeError ==
    call.fn \in AiFunctions =>
        /\ call.result.raised \in {"", "RuntimeError"}
        /\ call.result.raised = "" => call.result.value \in Seq({"s", " "})
        /\ (call.env.modern.kind = "ok" /\ call.env.modern.content # NoText) =>
              /\ call.result.raised = ""
              /\ call.result.value = Strip(call.env.modern.content)
              /\ \A i \in 1..Len(call.result.requests) :
                    call.result.requests[i].client = "modern"

\* the modern request failed, the legacy client answered, and its text was
\* returned
C20_Witness ==
    /\ call.fn = "_call_openai_chat"
    /\ call.env.modern.kind = "failed" /\ call.env.legacy.kind = "ok"
    /\ call.result.raised = "" /\ call.result.value = <<"s">>

-----------------------------------------------------------------------------
(* app.py *)

MAX_FREE_BYTES == 4 * 1024 * 1024

Pages == {"Upload", "Summary", "Analysis"}

\* the choices the user makes of the style radio and the length selectbox
StyleInputs == {"Detailed Summary", "Executive Overview"}
LengthInputs == {"medium", "short"}

\* The files a user uploads.  name is the file name split at its dots; env is
\* what the libraries and the OCR service do with the file's bytes.
FileOf(f) ==
    CASE f = "A" ->
           [name |-> <<"contract", "DOCX">>, hash |-> "hash(A)", size |-> 1024,
            env |-> [key |-> TRUE, http |-> NoHttp, pdf |-> NoPdf, open |-> FALSE,
                     docx |-> [opened |-> TRUE, paragraphs |-> << <<"a">>, <<"b">> >>]]]
      [] f = "B" ->
           [name |-> <<"scan", "png">>, hash |-> "hash(B)", size |-> 2048,
            env |-> [key |-> TRUE, pdf |-> NoPdf, docx |-> NoDocx, open |-> FALSE,
                     http |-> [kind |-> "ok", parsed |-> << <<"c">> >>]]]
      [] f = "C" ->
           [name |-> <<"lease", "v2", "pdf">>, hash |-> "hash(C)", size |-> 4096,
            env |-> [key |-> TRUE, http |-> NoHttp, docx |-> NoDocx, open |-> FALSE,
                     pdf |-> [opened |-> TRUE, pages |-> <<[raises |-> FALSE, text |-> <<"a">>]>>]]]
      [] f = "D" ->
           [name |-> <<"big", "docx">>, hash |-> "hash(D)", size |-> MAX_FREE_BYTES + 1,
            env |-> [key |-> TRUE, http |-> NoHttp, pdf |-> NoPdf, open |-> FALSE,
                     docx |-> [opened |-> TRUE, paragraphs |-> << <<"d">> >>]]]
      [] f = "E" ->
           [name |-> <<"empty", "pdf">>, hash |-> "hash(E)", size |-> 0,
            env |-> [key |-> TRUE, http |-> NoHttp, pdf |-> NoPdf, docx |-> NoDocx,
                     open |-> FALSE]]
      [] f = "F" ->
           [name |-> <<"notes", "txt">>, hash |-> "hash(F)", size |-> MAX_FREE_BYTES,
            env |-> [key |-> TRUE, http |-> NoHttp, pdf |-> NoPdf, docx |-> NoDocx,
                     open |-> FALSE]]
      [] f = "G" ->
           [name |-> <<"blank", "docx">>, hash |-> "hash(G)", size |-> 512,
            env |-> [key |-> TRUE, http |-> NoHttp, pdf |-> NoPdf, open |-> FALSE,
                     docx |-> [opened |-> TRUE, paragraphs |-> << <<" ">>, <<>> >>]]]

Files == {"A", "B", "C"}

\* the files of the upload specification: also a file one byte over the free
\* limit, an empty file, a file of exactly the free limit whose name has
\* none of the extensions the script dispatches on, and a document whose
\* paragraphs hold only whitespace, for which the extractor returns ""
UploadFiles == {"A", "B", "C", "D", "E", "F", "G"}

\* len(text.split())
RECURSIVE WordCount(_)
WordCount(t) ==
    IF t = <<>> THEN 0
    ELSE IF Head(t) \in Whitespace THEN WordCount(Tail(t))
    ELSE IF Len(t) = 1 \/ t[2] \in Whitespace THEN 1 + WordCount(Tail(t))
    ELSE WordCount(Tail(t))

\* the format-style prefix of a prompt; the token stands for the sentence
StylePrefix(style) ==
    CASE style = "Detailed Summary" -> <<"<Please produce a detailed plain-English summary ...>">>
      [] style = "Bullet Points" -> <<"<Please summarize the contract into concise bullet points ...>">>
      [] OTHER -> <<"<Please provide a short executive overview ...>">>

PromptTextPrefixOnly(style, text) == StylePrefix(style)

PromptText(style, text) == StylePrefix(style) \o <<"\n", "\n", "Contract:", "\n">> \o text

CacheKeyWithoutStyle(file_hash, format_style, length, prompt_text) ==
    <<file_hash, "", length, "">>

\* the key st.cache_data derives from the arguments of a call: all of them
CacheKey(file_hash, format_style, length, prompt_text) ==
    <<file_hash, format_style, length, prompt_text>>

\* cached_summarize under st.cache_data: a call with arguments seen before
\* returns the stored value; otherwise summarize_contract runs and its return
\* value (not an exception) is stored
cached_summarize(store, file_hash, format_style, length, prompt_text, llm) ==
    LET key == CacheKey(file_hash, format_style, length, prompt_text)
        args == <<file_hash, format_style, length, prompt_text>>
    IN
    IF key \in DOMAIN store
    THEN [raised |-> "", value |-> store[key], cache |-> store, llm |-> 0, cached |-> "hit",
          args |-> args]
    ELSE LET r == summarize_contract(prompt_text, length, llm) IN
         IF r.raised # ""
         THEN [raised |-> r.raised, value |-> <<>>, cache |-> store, llm |-> r.llm,
               cached |-> "raised", args |-> args]
         ELSE [raised |-> "", value |-> r.value, cache |-> DictSet(store, key, r.value),
               llm |-> r.llm, cached |-> "miss", args |-> args]

\* an interaction that starts a script run
Ev(kind, a, b, c) == [kind |-> kind, a |-> a, b |-> b, c |-> c]

\* the credentials typed into the forms: the default user signs in; "a" is
\* registered through the form and tried with a wrong password
LoginInputs == {<<"test", "test">>, <<"test", "p">>, <<"a", "test">>, <<"", "">>}
RegisterInputs == {<<"a", "p", "paid">>, <<"test", "p", "paid">>, <<"a", "", "free">>}

\* the interactions the page shown by the last run offers
Events(s) ==
    IF s.pending THEN {Ev("rerun", "", "", "")}
    ELSE IF s.view = "login"
    THEN {Ev("login", c[1], c[2], "") : c \in LoginInputs}
             \cup {Ev("register", c[1], c[2], c[3]) : c \in RegisterInputs}
    ELSE {Ev("logout", "", "", "")}
             \cup {Ev("page", q, "", "") : q \in Pages \ {s.page}}
             \cup (IF s.page = "Upload"
                   THEN {Ev("upload", f, "", "") : f \in (Files \cup {""}) \ {s.uploader}}
                            \cup {Ev("style", x, "", "") : x \in StyleInputs}
                            \cup {Ev("length", x, "", "") : x \in LengthInputs}
                   ELSE {})
             \cup (IF s.button = "summarize_now" THEN {Ev("summarize_now", "", "", "")} ELSE {})
             \cup (IF s.button = "generate" THEN {Ev("generate", "", "", "")} ELSE {})

\* the state a script run leaves: session, stores, and what it did
After(s, U, G, C, r) == [ss |-> s, users |-> U, usage |-> G, cache |-> C, run |-> r]

SummaryCountAlways(G, user, cs) == increment_usage(G, user, 0, 1)

\* `increment_usage(st.session_state.user, summaries=1)` inside the try block,
\* after cached_summarize: skipped when cached_summarize raised
SummaryCount(G, user, cs) == IF cs.raised = "" THEN increment_usage(G, user, 0, 1) ELSE G

\* the session after `last_summary = summary; summary_word_count = ...`
StoreSummaryWithoutCount(s, cs) ==
    IF cs.raised # "" THEN s
    ELSE [s EXCEPT !.last_summary = cs.value, !.summary_of = s.last_text]

StoreSummary(s, cs) ==
    IF cs.raised # "" THEN s
    ELSE [s EXCEPT !.last_summary = cs.value,
                   !.summary_word_count = WordCount(cs.value),
                   !.summary_of = s.last_text]

FileExtAfterFirstDot(name) == Lower(name[2])

\* `uploaded_file.name.split(".")[-1].lower()`
FileExt(name) == Lower(name[Len(name)])

OverFreeLimitAnyPlan(user_plan, file_size) == file_size > MAX_FREE_BYTES

\* `user_plan == "free" and file_size > MAX_FREE_BYTES`
OverFreeLimit(user_plan, file_size) == user_plan = "free" /\ file_size > MAX_FREE_BYTES

\* the text extraction of the Upload page: the extractor is chosen by the
\* lower-cased last dot-segment of the name; an exception leaves text = ""
AppExtract(f) ==
    LET file_ext == FileExt(f.name)
        fn == CASE file_ext = "docx" -> "extract_text_from_docx"
                [] file_ext = "pdf" -> "extract_text_from_pdf"
                [] file_ext \in {"png", "jpg", "jpeg"} -> "extract_text_from_image"
                [] OTHER -> ""
        r == CASE fn = "extract_text_from_docx" -> extract_text_from_docx("filelike", f.env)
               [] fn = "extract_text_from_pdf" -> extract_text_from_pdf("filelike", f.env)
               [] fn = "extract_text_from_image" -> extract_text_from_image("filelike", f.env)
               [] OTHER -> Return(<<>>, 0, 0)
    IN [fn |-> fn, text |-> IF r.raised # "" THEN <<>> ELSE r.value, ocr |-> r.ocr]

ClearTextOnly(s) == [s EXCEPT !.last_text = <<>>, !.orig_word_count = 0]

\* the "No readable text found" branch
ClearDocument(s) ==
    [s EXCEPT !.last_text = <<>>, !.last_summary = <<>>,
              !.orig_word_count = 0, !.summary_word_count = 0, !.summary_of = <<>>]

\* the Upload page
UploadPage(s, U, G, C, ev, format_style, length, llm, user_plan) ==
    LET up == IF ev.kind = "upload" THEN ev.a ELSE s.uploader
        s0 == [s EXCEPT !.uploader = up, !.button = "none"]
        quiet == RunRecord(ev.kind, FALSE, "", 0, "none", 0)
    IN
    IF up = "" THEN After(s0, U, G, C, quiet)
    ELSE LET f == FileOf(up) IN
    IF f.size = 0 THEN After(s0, U, G, C, quiet)
    ELSE IF OverFreeLimit(user_plan, f.size) THEN After(s0, U, G, C, quiet)
    ELSE
    LET s1 == [s0 EXCEPT !.last_file_hash = f.hash]
        x == AppExtract(f)
    IN
    IF Blank(x.text)
    THEN After(ClearDocument(s1), U, G, C, RunRecord(ev.kind, FALSE, x.fn, x.ocr, "none", 0))
    ELSE
    LET s2 == [s1 EXCEPT !.last_text = x.text, !.last_style = format_style,
                         !.last_length = length, !.orig_word_count = WordCount(x.text),
                         !.button = "summarize_now"]
        G1 == increment_usage(G, s.user, 1, 0)
    IN
    IF ev.kind # "summarize_now"
    THEN After(s2, U, G1, C, RunRecord(ev.kind, FALSE, x.fn, x.ocr, "none", 0))
    ELSE
    LET cs == cached_summarize(C, s2.last_file_hash, format_style, length,
                               PromptText(format_style, s2.last_text), llm)
    IN After(StoreSummary(s2, cs), U, SummaryCount(G1, s.user, cs), cs.cache,
             [RunRecord(ev.kind, FALSE, x.fn, x.ocr, cs.cached, cs.llm) EXCEPT !.args = cs.args])

CurStyleDefault(s) == "Detailed Summary"

\* `cur_style = st.session_state.last_style or "Detailed Summary"`
CurStyle(s) == IF Falsy(s.last_style) THEN "Detailed Summary" ELSE s.last_style

\* the Summary page
SummaryPage(s, U, G, C, ev, llm) ==
    LET s0 == [s EXCEPT !.uploader = "", !.button = "none"]
        quiet == RunRecord(ev.kind, FALSE, "", 0, "none", 0)
    IN
    IF s0.last_text = <<>> THEN After(s0, U, G, C, quiet)
    ELSE IF s0.last_summary # <<>> THEN After(s0, U, G, C, quiet)
    ELSE IF ev.kind # "generate" THEN After([s0 EXCEPT !.button = "generate"], U, G, C, quiet)
    ELSE
    LET cur_style == CurStyle(s0)
        cur_length == IF Falsy(s0.last_length) THEN "medium" ELSE s0.last_length
        cs == cached_summarize(C, s0.last_file_hash, cur_style, cur_length,
                               PromptText(cur_style, s0.last_text), llm)
        s1 == StoreSummary(s0, cs)
    IN After(IF cs.raised = "" THEN [s1 EXCEPT !.page = "Summary", !.pending = TRUE]
             ELSE [s1 EXCEPT !.button = IF s1.last_summary = <<>> THEN "generate" ELSE "none"],
             U, SummaryCount(G, s.user, cs), cs.cache,
             [RunRecord(ev.kind, FALSE, "", 0, cs.cached, cs.llm) EXCEPT !.args = cs.args])

\* the authentication flow, ending in st.stop()
AuthFlow(s, U, G, C, ev) ==
    LET s0 == [s EXCEPT !.view = "login", !.uploader = "", !.button = "none"] IN
    IF ev.kind = "login"
    THEN LET ok == validate_user(U, ev.a, ev.b) IN
         After(IF ok THEN [s0 EXCEPT !.logged_in = TRUE, !.user = ev.a, !.pending = TRUE] ELSE s0,
               U, G, C, RunRecord(ev.kind, ok, "", 0, "none", 0))
    ELSE IF ev.kind = "register"
    THEN After(s0, register_user(U, ev.a, ev.b, ev.c).users, G, C,
               RunRecord(ev.kind, FALSE, "", 0, "none", 0))
    ELSE After(s0, U, G, C, RunRecord(ev.kind, FALSE, "", 0, "none", 0))

LogoutForgetsDocument(s) ==
    [FreshSession EXCEPT !.view = s.view, !.uploader = s.uploader, !.pending = TRUE]

LogoutKeepsUser(s) ==
    [s EXCEPT !.logged_in = FALSE, !.page = "Upload", !.pending = TRUE, !.button = "none"]

\* the Logout button, ending in st.rerun()
Logout(s) ==
    [s EXCEPT !.logged_in = FALSE, !.user = None, !.page = "Upload",
              !.pending = TRUE, !.button = "none"]

\* the main app: sidebar, logout, page selector, and the page
MainApp(s, U, G, C, ev, format_style, length, llm) ==
    LET user_plan == get_user_plan(U, s.user) IN
    IF ev.kind = "logout"
    THEN After(Logout(s), U, G, C, RunRecord(ev.kind, FALSE, "", 0, "none", 0))
    ELSE
    LET page == IF ev.kind = "page" THEN ev.a ELSE s.page
        s1 == [s EXCEPT !.page = page, !.view = "app"]
    IN
    IF page = "Upload" THEN UploadPage(s1, U, G, C, ev, format_style, length, llm, user_plan)
    ELSE IF page = "Summary" THEN SummaryPage(s1, U, G, C, ev, llm)
    ELSE After([s1 EXCEPT !.uploader = "", !.button = "none"], U, G, C,
               RunRecord(ev.kind, FALSE, "", 0, "none", 0))

ShowLoginNever(s) == FALSE

\* `if not st.session_state.logged_in:`
ShowLogin(s) == ~s.logged_in

\* one run of the script, top to bottom
Script(s, U, G, C, ev, format_style, length, llm) ==
    LET U1 == ensure_default_user(U)
        s1 == [s EXCEPT !.pending = FALSE]
    IN IF ShowLogin(s1) THEN AuthFlow(s1, U1, G, C, ev)
       ELSE MainApp(s1, U1, G, C, ev, format_style, length, llm)

\* the values of the style and length widgets in a run: the value just chosen;
\* else, when the last run showed the extracted text, the value it stored;
\* else any value the user chose earlier
WidgetValues(s, ev, kind, stored, inputs) ==
    IF ev.kind = kind THEN {ev.a}
    ELSE IF s.button = "summarize_now" THEN {stored}
    ELSE inputs

InitApp ==
    /\ users = ensure_default_user(EmptyDict)
    /\ usage = EmptyDict
    /\ ret = NoCall
    /\ registered = EmptyDict
    /\ procs = EmptyDict
    /\ call = NoExtract
    /\ ss = FreshSession
    /\ cache = EmptyDict
    /\ run = NoRun
    /\ sessions = EmptyDict
    /\ session_file = None

ScriptRun ==
    \E ev \in Events(ss), llm \in LlmOutcomes :
    \E format_style \in WidgetValues(ss, ev, "style", ss.last_style, StyleInputs),
       length \in WidgetValues(ss, ev, "length", ss.last_length, LengthInputs) :
    \E a \in {Script(ss, users, usage, cache, ev, format_style, length, llm)} :
        /\ \A u \in DOMAIN a.usage :
             a.usage[u].uploads <= MaxUsage /\ a.usage[u].summaries <= MaxUsage
        /\ ss' = a.ss
        /\ users' = a.users
        /\ usage' = a.usage
        /\ cache' = a.cache
        /\ run' = a.run
        /\ UNCHANGED <<ret, registered, procs, call, sessions, session_file>>

NextApp == ScriptRun

SpecApp == InitApp /\ [][NextApp]_vars

-----------------------------------------------------------------------------
(* Claims about app.py *)

Uploads(G, u) == get_usage(G, u).uploads

Summaries(G, u) == get_usage(G, u).summaries

\* C3: a run of a session that is not logged in calls no extractor, sends no
\* OCR or LLM request, increments no usage counter and writes neither
\* last_text nor last_summary; and logged_in turns True only in a run whose
\* login form was submitted with credentials validate_user accepted, for the
\* user of those credentials.
C3_SignedInOnly ==
    [][ /\ ~ss.logged_in =>
            /\ run'.extractor = "" /\ run'.ocr = 0
            /\ run'.cached = "none" /\ run'.llm = 0
            /\ usage' = usage
            /\ ss'.last_text = ss.last_text /\ ss'.last_summary = ss.last_summary
        /\ (~ss.logged_in /\ ss'.logged_in) =>
            /\ run'.kind = "login" /\ run'.validated
            /\ ss'.user \in DOMAIN users'
      ]_vars

\* a rejected login left the session logged out, with a document and a summary
\* of an earlier login still in the session
C3_Witness ==
    /\ run.kind = "login" /\ ~run.validated /\ ~ss.logged_in
    /\ ss.last_text # <<>> /\ ss.last_summary # <<>>

\* C6: at the end of every script run a non-empty last_summary is a summary
\* generated from the text currently held in last_text.
C6_SummaryOfCurrentText ==
    ss.last_summary # <<>> => ss.summary_of = ss.last_text

\* C7: the uploads counter grows by exactly 1 for an uploaded file with
\* non-blank text and stays as it is in every further run made while the same
\* file stays in the uploader (style or length change, Summarize now, ...).
C7_UploadsCountFiles ==
    [][ \A u \in Usernames :
          Uploads(usage', u) =
              IF run'.kind = "upload" /\ run'.extractor # "" /\ ss'.last_text # <<>>
                 /\ u = ss.user
              THEN Uploads(usage, u) + 1
              ELSE Uploads(usage, u)
      ]_vars

\* C8: a click of Summarize now or Generate summary whose cached_summarize call
\* returns (cache hit or fresh LLM call) adds exactly 1 to the signed-in user's
\* summaries counter; a click whose call raises, and every other run, leaves
\* every summaries counter unchanged.
C8_SummariesCount ==
    [][ \A u \in Usernames :
          Summaries(usage', u) =
              IF run'.kind \in {"summarize_now", "generate"}
                 /\ run'.cached \in {"hit", "miss"} /\ u = ss.user
              THEN Summaries(usage, u) + 1
              ELSE Summaries(usage, u)
      ]_vars

\* a second summary of the same file, style and length came from the cache
\* and was counted
C8_Witness ==
    /\ run.kind \in {"summarize_now", "generate"}
    /\ run.cached = "hit" /\ run.llm = 0
    /\ Summaries(usage, "test") = 2

\* the step is a click of Summarize now or Generate summary whose
\* cached_summarize call raised
FailedSummarize == run'.kind \in {"summarize_now", "generate"} /\ run'.cached = "raised"

\* C14: when cached_summarize raises during Summarize now or Generate summary,
\* last_summary, summary_word_count, last_text, page and the usage counters
\* have the values they had before the click.
C14_FailureChangesNothing ==
    [][ FailedSummarize =>
          /\ ss'.last_summary = ss.last_summary
          /\ ss'.summary_word_count = ss.summary_word_count
          /\ ss'.last_text = ss.last_text
          /\ ss'.page = ss.page
          /\ usage' = usage
      ]_vars

\* what does hold: all of that except the uploads counter, which the run of
\* a failed Summarize now increments like every run of the Upload page (C7);
\* a failed Generate summary changes no counter
C14_ExceptUploads ==
    [][ FailedSummarize =>
          /\ ss'.last_summary = ss.last_summary
          /\ ss'.summary_word_count = ss.summary_word_count
          /\ ss'.last_text = ss.last_text
          /\ ss'.page = ss.page
          /\ \A u \in Usernames : Summaries(usage', u) = Summaries(usage, u)
          /\ run'.kind = "generate" => usage' = usage
      ]_vars

-----------------------------------------------------------------------------
(* Uploads by a free and by a paid user.  The same script, driven by the   *)
(* interactions that matter for the size gate and the extension dispatch:  *)
(* the default user "test" (free) and a registered user "a" (paid) sign in *)
(* and upload files of every size class and extension.                     *)

UploadEvents(s) ==
    IF s.pending THEN {Ev("rerun", "", "", "")}
    ELSE IF s.view = "login"
    THEN {Ev("login", c[1], c[2], "") : c \in {<<"test", "test">>, <<"a", "p">>}}
             \cup {Ev("register", "a", "p", "paid")}
    ELSE {Ev("logout", "", "", "")}
             \cup {Ev("upload", f, "", "") : f \in (UploadFiles \cup {""}) \ {s.uploader}}
             \cup (IF s.button = "summarize_now" THEN {Ev("summarize_now", "", "", "")} ELSE {})

UploadRun ==
    \E ev \in UploadEvents(ss), llm \in LlmOutcomes :
    \E a \in {Script(ss, users, usage, cache, ev, "Detailed Summary", "medium", llm)} :
        /\ \A u \in DOMAIN a.usage :
             a.usage[u].uploads <= MaxUsage /\ a.usage[u].summaries <= MaxUsage
        /\ ss' = a.ss
        /\ users' = a.users
        /\ usage' = a.usage
        /\ cache' = a.cache
        /\ run' = a.run
        /\ UNCHANGED <<ret, registered, procs, call, sessions, session_file>>

NextUpload == UploadRun

SpecUpload == InitApp /\ [][NextUpload]_vars

\* the step is a run of the Upload page of a signed-in session with a file in
\* the uploader
UploadPageRun ==
    ss.logged_in /\ run'.kind # "logout" /\ ss'.page = "Upload" /\ ss'.uploader # ""

\* no extractor, OCR or LLM call, and the document state and the usage
\* counters are as before the run
NothingHappened ==
    /\ run'.extractor = "" /\ run'.ocr = 0 /\ run'.cached = "none" /\ run'.llm = 0
    /\ ss'.last_file_hash = ss.last_file_hash
    /\ ss'.last_text = ss.last_text /\ ss'.last_summary = ss.last_summary
    /\ ss'.orig_word_count = ss.orig_word_count
    /\ ss'.summary_word_count = ss.summary_word_count
    /\ usage' = usage

\* the file's hash is stored and its text (or "" for no readable text) is the
\* session's text
Processed(f) ==
    /\ ss'.last_file_hash = f.hash
    /\ ss'.last_text = IF Blank(AppExtract(f).text) THEN <<>> ELSE AppExtract(f).text

\* C11 as stated: a free user's file larger than MAX_FREE_BYTES stops the run
\* before anything happens; a paid user's file of any size, and a free user's
\* file of at most MAX_FREE_BYTES, is processed.
C11_Original ==
    [][ UploadPageRun =>
          LET f == FileOf(ss'.uploader) IN
          IF get_user_plan(users', ss.user) = "free" /\ f.size > MAX_FREE_BYTES
          THEN NothingHappened
          ELSE Processed(f)
      ]_vars

\* C11 amended: as C11_Original for every file that is not empty; an empty
\* file (0 bytes) is not processed, whatever the plan.
C11_QuotaGate ==
    [][ UploadPageRun =>
          LET f == FileOf(ss'.uploader) IN
          IF get_user_plan(users', ss.user) = "free" /\ f.size > MAX_FREE_BYTES
          THEN NothingHappened
          ELSE IF f.size > 0 THEN Processed(f)
          ELSE NothingHappened
      ]_vars

\* the free user's upload of the file over the limit was stopped, and the
\* text and the summary of the file uploaded before are still in the session
C11_Witness ==
    /\ run.kind = "upload" /\ ss.user = "test" /\ ss.uploader = "D"
    /\ ss.last_file_hash = "hash(A)"
    /\ ss.last_text # <<>> /\ ss.last_summary # <<>>

\* the paid user's upload of the same file was processed
C11_PaidProcessed ==
    /\ run.kind = "upload" /\ ss.user = "a" /\ ss.uploader = "D"
    /\ ss.last_file_hash = "hash(D)" /\ ss.last_text = <<"d">>

\* the run passed the size checks and reached the extension dispatch
Dispatched(f, user) ==
    f.size > 0 /\ ~(get_user_plan(users', user) = "free" /\ f.size > MAX_FREE_BYTES)

\* C17: the extractor is picked by the lower-cased text after the last "." of
\* the file's name alone: the DOCX extractor for "docx", the PDF extractor for
\* "pdf", the image OCR extractor for "png", "jpg" and "jpeg", one extractor
\* call per run; for any other value no extractor is called, the text is
\* empty and the upload is treated as having no readable text.
C17_ByExtension ==
    [][ UploadPageRun =>
          LET f == FileOf(ss'.uploader)
              ext == Lower(f.name[Len(f.name)])
          IN IF ~Dispatched(f, ss.user) THEN run'.extractor = ""
             ELSE CASE ext = "docx" -> run'.extractor = "extract_text_from_docx"
                    [] ext = "pdf" -> run'.extractor = "extract_text_from_pdf"
                    [] ext \in {"png", "jpg", "jpeg"} -> run'.extractor = "extract_text_from_image"
                    [] OTHER -> /\ run'.extractor = "" /\ run'.ocr = 0
                                /\ ss'.last_text = <<>> /\ ss'.last_summary = <<>>
                                /\ ss'.orig_word_count = 0 /\ ss'.summary_word_count = 0
                                /\ usage' = usage
      ]_vars

\* lease.v2.pdf went to the PDF extractor
C17_Witness ==
    /\ run.kind = "upload" /\ ss.uploader = "C"
    /\ run.extractor = "extract_text_from_pdf"
    /\ ss.last_file_hash = "hash(C)"

\* notes.txt reached no extractor and cleared the text of the file before
C17_Unsupported ==
    /\ run.kind = "upload" /\ ss.uploader = "F" /\ run.extractor = ""
    /\ ss.last_file_hash = "hash(F)" /\ ss.last_text = <<>>

-----------------------------------------------------------------------------
(* Two browser sessions of one server.  Each session has a st.session_state *)
(* of its own; the user store and, in test_ai.py, the file session.json in *)
(* the server's working directory are shared by all sessions.  passed is    *)
(* history: the usernames for which a login form submitted in the session  *)
(* passed validate_user.                                                    *)

SessionIds == {1, 2}

FreshBrowserSession(script) ==
    [script |-> script, logged_in |-> FALSE, user |-> None, pending |-> FALSE, passed |-> {}]

\* the interactions a session offers; "load" opens or reloads the page
SessionEvents(s) ==
    IF s.pending THEN {Ev("rerun", "", "", FALSE)}
    ELSE {Ev("load", "", "", FALSE)}
             \cup (IF s.logged_in THEN {Ev("logout", "", "", FALSE)}
                   ELSE {Ev("login", c[1], c[2], remember) :
                             c \in {<<"test", "test">>, <<"test", "p">>, <<"a", "p">>},
                             remember \in BOOLEAN}
                            \cup {Ev("register", "a", "p", FALSE)})

\* test_ai.py: `if not st.session_state.logged_in: remembered_user =
\* load_session(); if remembered_user: ...`; app.py has no such step
LoadSession(script, s, file) ==
    IF script = "test_ai.py" /\ ~s.logged_in /\ ~Falsy(file)
    THEN [s EXCEPT !.logged_in = TRUE, !.user = file]
    ELSE s

\* one run of the script in one session: [session, users, file]
SessionScript(s, U, file, ev) ==
    LET U1 == ensure_default_user(U)
        s1 == LoadSession(s.script, [s EXCEPT !.pending = FALSE], file)
        remembers == s.script = "test_ai.py"
    IN
    IF ev.kind = "login" /\ ~s1.logged_in
    THEN IF validate_user(U1, ev.a, ev.b)
         THEN [session |-> [s1 EXCEPT !.logged_in = TRUE, !.user = ev.a, !.pending = TRUE,
                                      !.passed = @ \cup {ev.a}],
               users |-> U1,
               file |-> IF remembers /\ ev.c THEN ev.a ELSE file]
         ELSE [session |-> s1, users |-> U1, file |-> file]
    ELSE IF ev.kind = "register" /\ ~s1.logged_in
    THEN [session |-> s1, users |-> register_user(U1, ev.a, ev.b, "paid").users, file |-> file]
    ELSE IF ev.kind = "logout" /\ s1.logged_in
    THEN [session |-> [s1 EXCEPT !.logged_in = FALSE, !.user = None, !.pending = TRUE],
          users |-> U1,
          file |-> IF remembers THEN None ELSE file]
    ELSE [session |-> s1, users |-> U1, file |-> file]

InitSessions ==
    /\ users = ensure_default_user(EmptyDict)
    /\ usage = EmptyDict
    /\ ret = NoCall
    /\ registered = EmptyDict
    /\ procs = EmptyDict
    /\ call = NoExtract
    /\ ss = NoSession
    /\ cache = EmptyDict
    /\ run = NoRun
    /\ \E script \in {"app.py", "test_ai.py"} : sessions = [i \in SessionIds |-> FreshBrowserSession(script)]
    /\ session_file = None

SessionRun(i) ==
    \E ev \in SessionEvents(sessions[i]) :
    \E a \in {SessionScript(sessions[i], users, session_file, ev)} :
        /\ sessions' = [sessions EXCEPT ![i] = a.session]
        /\ users' = a.users
        /\ session_file' = a.file
        /\ UNCHANGED <<usage, ret, registered, procs, call, ss, cache, run>>

NextSessions == \E i \in SessionIds : SessionRun(i)

SpecSessions == InitSessions /\ [][NextSessions]_vars

\* C16: a session is logged in as user u only if a login form submitted in
\* that same session passed validate_user for u: a login in one session, with
\* or without Remember me, never makes another session logged in.
C16_PerSession ==
    \A i \in SessionIds :
        sessions[i].logged_in => sessions[i].user \in sessions[i].passed

\* the same for app.py alone, which keeps the login in st.session_state only
C16_AppPyPerSession ==
    \A i \in SessionIds :
        (sessions[i].script = "app.py" /\ sessions[i].logged_in)
            => sessions[i].user \in sessions[i].passed

\* a run of one session changes the login state of no other session: a
\* logout in one session leaves the others logged in as they were
C16_OthersUntouched ==
    [][ \A i, j \in SessionIds :
          (sessions'[i] # sessions[i] /\ j # i) => sessions'[j] = sessions[j]
      ]_vars

-----------------------------------------------------------------------------
(* The summary cache, the usage counters and the session fields of app.py  *)

\* the entries of the cache store made for a file hash, format style and length
CachedFor(store, args) ==
    {k \in DOMAIN store : k[1] = args[1] /\ k[2] = args[2] /\ k[3] = args[3]}

\* C21: a call of cached_summarize for a (file_hash, format_style, length)
\* that an earlier call returned a summary for returns that summary without
\* calling the summarizer and leaves the cache as it is; a call for any other
\* triple calls the summarizer; a call that returns leaves an entry for its
\* triple holding the summary returned, and a call that raises leaves the
\* cache unchanged.
C21_CacheByTriple ==
    [][ run'.cached # "none" =>
          /\ CachedFor(cache, run'.args) # {} =>
                /\ run'.cached = "hit" /\ run'.llm = 0
                /\ cache' = cache
                /\ \A k \in CachedFor(cache, run'.args) : ss'.last_summary = cache[k]
          /\ CachedFor(cache, run'.args) = {} => run'.cached \in {"miss", "raised"}
          /\ run'.cached = "miss" =>
                /\ CachedFor(cache', run'.args) # {}
                /\ \A k \in CachedFor(cache', run'.args) : cache'[k] = ss'.last_summary
          /\ run'.cached = "raised" => cache' = cache
      ]_vars

\* a summary came from the cache, for a style other than the default one
C21_Witness ==
    /\ run.cached = "hit" /\ run.llm = 0
    /\ run.args[2] = "Executive Overview"
    /\ CachedFor(cache, run.args) # {}
    /\ ss.last_summary # <<>>

\* the usage store equals `before` except for the entry of user u, which holds
\* the counters of `before` (zeros when u had no entry) plus uploads and summaries
Added(before, after, u, uploads, summaries) ==
    /\ DOMAIN after = DOMAIN before \cup {u}
    /\ \A v \in DOMAIN before \ {u} : after[v] = before[v]
    /\ after[u].uploads = (IF u \in DOMAIN before THEN before[u].uploads ELSE 0) + uploads
    /\ after[u].summaries = (IF u \in DOMAIN before THEN before[u].summaries ELSE 0) + summaries

\* C22: get_usage returns zeros for an empty username and for a username with
\* no usage entry, the stored counters otherwise, and a get_usage call leaves
\* the usage store as it is; increment_usage with an empty username leaves the
\* store as it is; increment_usage for user u adds its uploads and summaries
\* arguments to the counters of u, so that after a sequence of calls the
\* counters are the sums of the arguments, and leaves the counters of every
\* other user unchanged.
C22_UsageReadAndAdd ==
    /\ [](\A username \in UsernameInputs :
            /\ get_usage(usage, username) =
                   IF username \in {None, ""} \/ username \notin DOMAIN usage
                   THEN [uploads |-> 0, summaries |-> 0]
                   ELSE usage[username]
            /\ \A uploads, summaries \in {0, 1} :
                   IF username \in {None, ""}
                   THEN increment_usage(usage, username, uploads, summaries) = usage
                   ELSE Added(usage, increment_usage(usage, username, uploads, summaries),
                              username, uploads, summaries))
    /\ [][ /\ ret'.op = "get_usage" =>
                /\ usage' = usage
                /\ \E username \in UsernameInputs :
                       ret'.out = IF username \in {None, ""} \/ username \notin DOMAIN usage
                                  THEN [uploads |-> 0, summaries |-> 0]
                                  ELSE usage[username]
           /\ ret'.op = "increment_usage" =>
                \/ usage' = usage
                \/ \E u \in Usernames, uploads, summaries \in {0, 1} :
                       Added(usage, usage', u, uploads, summaries)
         ]_vars

\* get_usage returned the counters two increment_usage calls left for one
\* user, and zeros are what another user without an entry has
C22_Witness ==
    /\ ret.op = "get_usage"
    /\ ret.out = [uploads |-> 1, summaries |-> 1]
    /\ \E u, v \in Usernames :
          /\ u \in DOMAIN usage /\ usage[u] = ret.out
          /\ v \notin DOMAIN usage

\* the length a style argument of SpecAI stands for: compared without regard
\* to case, and medium for None, "" and every other value
ExpectedLength(style) ==
    CASE style = "SHORT" -> "short"
      [] style = "Detailed" -> "detailed"
      [] OTHER -> "medium"

\* sequence t begins with sequence prefix
StartsWith(t, prefix) == Len(t) >= Len(prefix) /\ SubSeq(t, 1, Len(prefix)) = prefix

\* sequence t ends with sequence suffix
EndsWith(t, suffix) ==
    Len(t) >= Len(suffix) /\ SubSeq(t, Len(t) - Len(suffix) + 1, Len(t)) = suffix

\* C23: every request summarize_contract sends carries the token budget of the
\* normalised length (300 for short, 800 for medium, 1400 for detailed, with
\* the style compared case-insensitively and None, "" and any other value
\* taken as medium) and a user message that begins with the length
\* instruction of that length and ends with the text.
C23_LengthNormalised ==
    (call.fn \in {"summarize_contract", "summarize_contract_pro1"}) =>
        \A i \in 1..Len(call.result.requests) :
            LET request == call.result.requests[i]
                length == ExpectedLength(call.style)
                user_msg == request.messages[2]
            IN /\ request.max_tokens =
                      (CASE length = "short" -> 300
                         [] length = "medium" -> 800
                         [] length = "detailed" -> 1400)
               /\ Len(request.messages) = 2
               /\ user_msg.role = "user"
               /\ StartsWith(user_msg.content,
                             IF call.fn = "summarize_contract"
                             THEN LengthInstruction(length)
                             ELSE LengthInstructionPro1(length))
               /\ EndsWith(user_msg.content, <<"a">>)
               /\ Len(user_msg.content) > 2

\* summarize_contract(text, "SHORT") sent a request with the budget and the
\* instruction of a short summary
C23_Witness ==
    /\ call.fn = "summarize_contract"
    /\ call.style = "SHORT"
    /\ Len(call.result.requests) = 1
    /\ call.result.requests[1].max_tokens = 300
    /\ call.result.raised = ""

\* the files of the upload specification that get past the size checks and
\* have no readable text: lease.v2.pdf (the extractor raises), notes.txt
\* (unsupported extension) and blank.docx (the extractor returns "")
NoReadableText == {"C", "F", "G"}

\* C24: a run of the Upload page on a file without readable text sets
\* last_text and last_summary to "" and both word counts to 0, leaves
\* last_style, last_length and every uploads counter as they were, calls
\* cached_summarize not at all and offers no summarize button; no summarize
\* button is offered while last_text is "", and cached_summarize is called
\* only by a click made while last_text holds text.
C24_NoReadableText ==
    /\ [](ss.logged_in /\ ss.last_text = <<>> => ss.button = "none")
    /\ [][ /\ (run'.kind = "upload" /\ ss'.uploader \in NoReadableText) =>
                /\ ss'.last_text = <<>> /\ ss'.last_summary = <<>>
                /\ ss'.orig_word_count = 0 /\ ss'.summary_word_count = 0
                /\ ss'.last_style = ss.last_style /\ ss'.last_length = ss.last_length
                /\ \A u \in Usernames : Uploads(usage', u) = Uploads(usage, u)
                /\ run'.cached = "none" /\ run'.llm = 0
                /\ ss'.button = "none"
           /\ (run'.cached # "none" \/ run'.llm > 0) =>
                /\ run'.kind \in {"summarize_now", "generate"}
                /\ ss.last_text # <<>> /\ ss'.last_text # <<>>
         ]_vars

\* the upload of blank.docx cleared the text and the summary of the file
\* uploaded before and counted no upload
C24_Witness ==
    /\ run.kind = "upload" /\ ss.uploader = "G"
    /\ run.extractor = "extract_text_from_docx"
    /\ ss.last_file_hash = "hash(G)"
    /\ ss.last_text = <<>> /\ ss.last_summary = <<>>
    /\ ss.last_style = "Detailed Summary"
    /\ Summaries(usage, "test") = 1 /\ Uploads(usage, "test") = 2

\* the fields of the session that hold the document: file hash, text, summary,
\* style, length and both word counts
Document(s) ==
    <<s.last_file_hash, s.last_text, s.last_summary, s.last_style, s.last_length,
      s.orig_word_count, s.summary_word_count>>

\* C25: a click of Logout sets logged_in to False, user to None and page to
\* 'Upload' and leaves last_file_hash, last_text, last_summary, last_style,
\* last_length and both word counts as they were; the runs of a logged-out
\* session, the login of the next user included, leave them as they were too.
C25_LogoutKeepsDocument ==
    [][ /\ run'.kind = "logout" =>
             /\ ~ss'.logged_in /\ ss'.user = None /\ ss'.page = "Upload"
             /\ Document(ss') = Document(ss)
        /\ ~ss.logged_in => Document(ss') = Document(ss)
      ]_vars

\* user "a" signed in after "test" logged out, and the session still holds
\* the text and the summary of the document "test" uploaded
C25_Witness ==
    /\ ss.logged_in /\ ss.user = "a"
    /\ run.kind = "login"
    /\ ss.last_file_hash = "hash(A)"
    /\ ss.last_text # <<>> /\ ss.last_summary # <<>>
    /\ ss.orig_word_count = 2 /\ ss.summary_word_count = 1
    /\ Uploads(usage, "a") = 0 /\ Summaries(usage, "a") = 0
    /\ Summaries(usage, "test") = 1

\* C26: at the end of every script run orig_word_count is the number of
\* whitespace-separated words of last_text and summary_word_count the number
\* of whitespace-separated words of last_summary.
C26_WordCounts ==
    /\ ss.orig_word_count = WordCount(ss.last_text)
    /\ ss.summary_word_count = WordCount(ss.last_summary)

\* after an upload, a summary and a logout the session holds a text of two
\* words and a summary of one word, counted as such
C26_Witness ==
    /\ run.kind = "logout"
    /\ ss.last_text = <<"a", "\n", "b">> /\ ss.orig_word_count = 2
    /\ ss.last_summary = <<"s">> /\ ss.summary_word_count = 1

\* C27: in every session state of app.py logged_in is True exactly when user
\* is not None, and the user of a logged-in session is a username of the user
\* store.
C27_LoginConsistent ==
    /\ ss.logged_in <=> ss.user # None
    /\ ss.logged_in => ss.user \in DOMAIN users

\* the registered user "a" is signed in and has uploaded a file, after "test"
\* had signed in and logged out
C27_Witness ==
    /\ ss.logged_in /\ ss.user = "a" /\ "a" \in DOMAIN users
    /\ run.kind = "upload" /\ ss.uploader = "A"
    /\ Uploads(usage, "test") = 1 /\ Uploads(usage, "a") = 1

\* text t holds at least one character that is not whitespace
HasNonWhitespace(t) == \E i \in 1..Len(t) : t[i] \notin {" ", "\n", "\t", "\r"}

\* C28: a run calls cached_summarize, on the Upload page and on the Summary
\* page, only when last_text holds at least one non-whitespace character, and
\* the prompt it passes ends with exactly that last_text.
C28_NeverSummarizeNothing ==
    [][ run'.cached # "none" =>
          /\ run'.kind \in {"summarize_now", "generate"}
          /\ HasNonWhitespace(ss'.last_text)
          /\ ss'.last_text = ss.last_text
          /\ EndsWith(run'.args[4], ss'.last_text)
          /\ Len(run'.args[4]) > Len(ss'.last_text)
      ]_vars

\* Generate summary was clicked for the text of scan.png and sent a prompt that
\* ends with it; Summarize now had not been clicked for that text
C28_Witness ==
    /\ run.kind = "generate" /\ run.cached = "miss" /\ run.llm = 1
    /\ ss.last_file_hash = "hash(B)" /\ ss.last_text = <<"c">>
    /\ run.args[4][Len(run.args[4])] = "c"

\* the prompt both buttons build for a style and a text
ExpectedPrompt(style, text) ==
    <<CASE style = "Detailed Summary" -> "<Please produce a detailed plain-English summary ...>"
        [] style = "Bullet Points" -> "<Please summarize the contract into concise bullet points ...>"
        [] OTHER -> "<Please provide a short executive overview ...>">>
        \o <<"\n", "\n", "Contract:", "\n">> \o text

\* C29: Summarize now and Generate summary call cached_summarize with the same
\* arguments for the same document: the file hash, the style and the length
\* stored at the last successful upload, and the prompt made of the prefix of
\* that style (the executive-overview prefix for every style other than
\* 'Detailed Summary' and 'Bullet Points') and last_text.
C29_SamePromptAndKey ==
    [][ run'.cached # "none" =>
          /\ run'.kind \in {"summarize_now", "generate"}
          /\ run'.args = <<ss'.last_file_hash, ss'.last_style, ss'.last_length,
                           ExpectedPrompt(ss'.last_style, ss'.last_text)>>
          /\ run'.kind = "generate" =>
                /\ ss'.last_file_hash = ss.last_file_hash
                /\ ss'.last_style = ss.last_style /\ ss'.last_length = ss.last_length
                /\ ss'.last_text = ss.last_text
      ]_vars

\* Generate summary was served from the cache for the style 'Executive
\* Overview' and the length 'short' stored at the upload
C29_Witness ==
    /\ run.kind = "generate" /\ run.cached = "hit"
    /\ ss.last_style = "Executive Overview" /\ ss.last_length = "short"
    /\ run.args[2] = "Executive Overview" /\ run.args[3] = "short"
    /\ run.args[4][1] = "<Please provide a short executive overview ...>"
    /\ ss.last_summary # <<>>

\* C30: every usage counter is non-negative; no script run lowers a counter;
\* a run that is not on a page of the signed-in session (a logout, a login, a
\* rejected login, a registration) leaves every counter as it was, so a user
\* who logs out and in again finds the values of before the logout.
C30_CountersOnlyGrow ==
    /\ [](\A u \in DOMAIN usage : usage[u].uploads >= 0 /\ usage[u].summaries >= 0)
    /\ [][ /\ \A u \in Usernames :
                /\ Uploads(usage', u) >= Uploads(usage, u)
                /\ Summaries(usage', u) >= Summaries(usage, u)
           /\ \A u \in DOMAIN usage : u \in DOMAIN usage'
           /\ (run'.kind \in {"logout", "login", "register"} \/ ~ss.logged_in) =>
                usage' = usage
         ]_vars

\* "test" signed in again after a logout and finds the two uploads and the
\* summary counted before the logout
C30_Witness ==
    /\ run.kind = "login" /\ run.validated
    /\ ss.logged_in /\ ss.user = "test"
    /\ Uploads(usage, "test") = 2 /\ Summaries(usage, "test") = 1

====
